---- MODULE Spec2Model ----
(***************************************************************************)
(* Model of scripts/pull-names.ts: the one-shot pipeline that fetches the  *)
(* upstream colour-naming CSV, parses it, groups the records by language   *)
(* and writes one CSV, one JSON and one SVG file per language.             *)
(*                                                                         *)
(* Text is modelled as a sequence of one-character strings, so parsing,    *)
(* formatting and escaping are computed character by character.            *)
(***************************************************************************)
EXTENDS Integers, Sequences, FiniteSets, TLC

VARIABLES
    pc,         \* position of the run / of the function call under test
    arg,        \* argument of the function under test (converter, parser, grouper)
    given,      \* what the argument was built from (channels of an rgb string)
    ret,        \* value returned by the function under test
    warnings,   \* number of console.warn calls so far
    csvData,    \* body of the remote resource
    response,   \* how the fetch went: pending, rejected, notok, ok, truncated, read
    existing,   \* output directories that exist before the run
    colors,     \* parseCSV(csvData)
    byLanguage, \* groupByLanguage(colors), a Map in insertion order
    gi,         \* index of the language group the loop of main is at
    step,       \* file the loop writes next for that group
    created,    \* directories the run has created, in order
    written,    \* the writeFileSync calls of the run, in order: [path, content]
    files,      \* path -> content, for the paths the run has written
    reported,   \* number of console.error calls of the catch handler
    exitCode    \* -1 while running, 0 after a normal end, 1 after process.exit(1)

vars == <<pc, arg, given, ret, warnings, csvData, response, existing, colors,
          byLanguage, gi, step, created, written, files, reported, exitCode>>

(***************************************************************************)
(* Bounds of the model.                                                    *)
(***************************************************************************)
MaxPad == 1
MaxJunk == 3
MaxLine == 4
MaxRecords == 3
MaxRows == 2

(***************************************************************************)
(* Text.                                                                   *)
(***************************************************************************)
Chars(s) == [i \in 1..Len(s) |-> SubSeq(s, i, i)]

\* The value of a missing property, and the error of using it as a string.
Undefined == <<"undefined">>
TypeError == <<"TypeError">>

\* White space as \s and String.prototype.trim see it (the part that can occur here).
IsSpace(c) == c \in {" ", "\t", "\r", "\n"}
IsDigit(c) == c \in {"0", "1", "2", "3", "4", "5", "6", "7", "8", "9"}

Digits == Chars("0123456789")
HexDigits == Chars("0123456789abcdef")

RECURSIVE SkipSpace(_, _)
SkipSpace(s, i) ==
    IF i <= Len(s) /\ IsSpace(s[i]) THEN SkipSpace(s, i + 1) ELSE i

RECURSIVE SkipDigits(_, _)
SkipDigits(s, i) ==
    IF i <= Len(s) /\ IsDigit(s[i]) THEN SkipDigits(s, i + 1) ELSE i

LitAt(s, i, c) == i <= Len(s) /\ s[i] = c

RECURSIVE Join(_, _)
Join(parts, sep) ==
    IF parts = <<>> THEN <<>>
    ELSE IF Len(parts) = 1 THEN parts[1]
    ELSE parts[1] \o sep \o Join(Tail(parts), sep)

RECURSIVE Repeat(_, _)
Repeat(s, n) == IF n <= 0 THEN <<>> ELSE s \o Repeat(s, n - 1)

\* String(n) of an integer: its decimal digits.
RECURSIVE FormatNat(_)
FormatNat(n) ==
    IF n < 10 THEN <<Digits[n + 1]>>
    ELSE FormatNat(n \div 10) \o <<Digits[(n % 10) + 1]>>

FormatInt(n) == IF n < 0 THEN <<"-">> \o FormatNat(0 - n) ELSE FormatNat(n)

(***************************************************************************)
(* rgbToHex                                                                *)
(***************************************************************************)
NoMatch == <<>>

\* (-?\d+) at position i: the position after it, or 0.
IntEnd(s, i) ==
    LET j == IF LitAt(s, i, "-") THEN i + 1 ELSE i
        k == SkipDigits(s, j)
    IN  IF k > j THEN k ELSE 0

\* /rgb\s*\(\s*(-?\d+)\s*,\s*(-?\d+)\s*,\s*(-?\d+)\s*\)/ tried at position i:
\* the three captures, or NoMatch.  Every \s* and \d+ is followed by a
\* character outside its class, so the greedy reading is the only one.
MatchAt(s, i) ==
    IF ~(LitAt(s, i, "r") /\ LitAt(s, i + 1, "g") /\ LitAt(s, i + 2, "b")) THEN NoMatch
    ELSE LET p1 == SkipSpace(s, i + 3) IN
    IF ~LitAt(s, p1, "(") THEN NoMatch
    ELSE LET a1 == SkipSpace(s, p1 + 1)
             e1 == IntEnd(s, a1) IN
    IF e1 = 0 THEN NoMatch
    ELSE LET c1 == SkipSpace(s, e1) IN
    IF ~LitAt(s, c1, ",") THEN NoMatch
    ELSE LET a2 == SkipSpace(s, c1 + 1)
             e2 == IntEnd(s, a2) IN
    IF e2 = 0 THEN NoMatch
    ELSE LET c2 == SkipSpace(s, e2) IN
    IF ~LitAt(s, c2, ",") THEN NoMatch
    ELSE LET a3 == SkipSpace(s, c2 + 1)
             e3 == IntEnd(s, a3) IN
    IF e3 = 0 THEN NoMatch
    ELSE LET p2 == SkipSpace(s, e3) IN
    IF ~LitAt(s, p2, ")") THEN NoMatch
    ELSE <<SubSeq(s, a1, e1 - 1), SubSeq(s, a2, e2 - 1), SubSeq(s, a3, e3 - 1)>>

\* String.prototype.match with an unanchored pattern: the leftmost match.
RECURSIVE MatchFrom(_, _)
MatchFrom(s, i) ==
    IF i > Len(s) THEN NoMatch
    ELSE LET m == MatchAt(s, i) IN
         IF m # NoMatch THEN m ELSE MatchFrom(s, i + 1)

rgbMatch(rgb) == MatchFrom(rgb, 1)

DigitVal(c) == (CHOOSE k \in 1..10 : Digits[k] = c) - 1

RECURSIVE DecimalVal(_)
DecimalVal(t) ==
    IF t = <<>> THEN 0
    ELSE 10 * DecimalVal(SubSeq(t, 1, Len(t) - 1)) + DigitVal(t[Len(t)])

\* parseInt(t, 10) for a capture of (-?\d+).
parseInt(t) ==
    IF t[1] = "-" THEN 0 - DecimalVal(Tail(t)) ELSE DecimalVal(t)

Min(a, b) == IF a < b THEN a ELSE b
Max(a, b) == IF a > b THEN a ELSE b

\* A clamp that wraps around instead.
clampWrap(n) == n % 256

clamp(n) == Max(0, Min(255, n))

\* Number.prototype.toString(16) of a non-negative integer.
RECURSIVE toString16(_)
toString16(n) ==
    IF n < 16 THEN <<HexDigits[n + 1]>>
    ELSE toString16(n \div 16) \o <<HexDigits[(n % 16) + 1]>>

padStart(s, n, c) == Repeat(<<c>>, n - Len(s)) \o s

\* A channel formatted without the zero padding.
channelHexNoPad(t) == toString16(clamp(parseInt(t)))

\* c => c.toString(16).padStart(2, '0') of clamp(parseInt(match[k], 10))
channelHex(t) == padStart(toString16(clamp(parseInt(t))), 2, "0")

\* A converter that throws on a string it cannot parse.
rgbToHexStrict(rgb) ==
    IF rgb = Undefined \/ rgbMatch(rgb) = NoMatch THEN TypeError
    ELSE LET match == rgbMatch(rgb) IN
         <<"#">> \o channelHex(match[1]) \o channelHex(match[2])
                 \o channelHex(match[3])

rgbToHex(rgb) ==
    IF rgb = Undefined THEN TypeError
    ELSE LET match == rgbMatch(rgb) IN
         IF match = NoMatch THEN Chars("#000000")
         ELSE <<"#">> \o channelHex(match[1]) \o channelHex(match[2])
                     \o channelHex(match[3])

\* console.warn of rgbToHex: issued exactly when the pattern does not match.
rgbWarns(rgb) == rgb # Undefined /\ rgbMatch(rgb) = NoMatch

(***************************************************************************)
(* parseCSV                                                                *)
(***************************************************************************)
\* String.prototype.trim
RECURSIVE SkipSpaceBack(_, _)
SkipSpaceBack(s, i) ==
    IF i >= 1 /\ IsSpace(s[i]) THEN SkipSpaceBack(s, i - 1) ELSE i

trim(s) == SubSeq(s, SkipSpace(s, 1), SkipSpaceBack(s, Len(s)))

\* String.prototype.split on a one-character separator: the pieces between
\* consecutive separators, never an empty array.
split(s, sep) ==
    LET at == {i \in 1..Len(s) : s[i] = sep}
        RECURSIVE Pieces(_)
        Pieces(from) ==
            LET next == {i \in at : i >= from} IN
            IF next = {} THEN <<SubSeq(s, from, Len(s))>>
            ELSE LET i == CHOOSE x \in next : \A y \in next : x <= y IN
                 <<SubSeq(s, from, i - 1)>> \o Pieces(i + 1)
    IN  Pieces(1)

\* Array.prototype.map
RECURSIVE Map(_, _)
Map(f(_), seq) == IF seq = <<>> THEN <<>> ELSE <<f(Head(seq))>> \o Map(f, Tail(seq))

\* for (const x of seq) st = body(st, x), over seq[lo..hi].  The range is
\* halved and the left half is evaluated (the comparison forces it) before the
\* right half starts, which keeps the evaluation shallow on long lines.
RECURSIVE ForEach(_, _, _, _, _)
ForEach(body(_, _), seq, lo, hi, st) ==
    IF lo > hi THEN st
    ELSE IF lo = hi THEN body(st, seq[lo])
    ELSE LET mid == (lo + hi) \div 2 IN
         LET left == ForEach(body, seq, lo, mid, st) IN
         IF left = st /\ lo > mid THEN st ELSE ForEach(body, seq, mid + 1, hi, left)

\* const values = []; let current = ''; let inQuotes = false
ScanStart == [values |-> <<>>, current |-> <<>>, inQuotes |-> FALSE]

\* A loop body that ends a value at every comma, quoted or not.
ScanStepNoQuotes(st, char) ==
    IF char = "\"" THEN [st EXCEPT !.inQuotes = ~@]
    ELSE IF char = ","
         THEN [st EXCEPT !.values = Append(@, trim(st.current)), !.current = <<>>]
    ELSE [st EXCEPT !.current = Append(@, char)]

\* The body of the loop over the characters of a data line: a quote toggles
\* inQuotes and is dropped, a comma outside quotes ends the current value,
\* anything else is appended to it.
ScanStep(st, char) ==
    IF char = "\"" THEN [st EXCEPT !.inQuotes = ~@]
    ELSE IF char = "," /\ ~st.inQuotes
         THEN [st EXCEPT !.values = Append(@, trim(st.current)), !.current = <<>>]
    ELSE [st EXCEPT !.current = Append(@, char)]

\* values.push(current.trim()) after the loop
ScanEnd(st) == Append(st.values, trim(st.current))

lineValuesNoQuotes(line) ==
    ScanEnd(ForEach(ScanStepNoQuotes, line, 1, Len(line), ScanStart))

lineValues(line) == ScanEnd(ForEach(ScanStep, line, 1, Len(line), ScanStart))

\* headers.forEach((header, i) => obj[header] = values[i] || ''): a repeated
\* header keeps the value of its last column.
lineRecord(headers, values) ==
    [h \in {headers[i] : i \in 1..Len(headers)} |->
        LET i == CHOOSE k \in 1..Len(headers) :
                     /\ headers[k] = h
                     /\ \A m \in (k + 1)..Len(headers) : headers[m] # h
        IN  IF i <= Len(values) THEN values[i] ELSE <<>>]

parseCSV(csv) ==
    LET lines == split(trim(csv), "\n")
        headers == Map(trim, split(lines[1], ","))
    IN  Map(LAMBDA line : lineRecord(headers, lineValues(line)), Tail(lines))

\* Property access on a record: a column the header row lacks is undefined.
Field(obj, k) == IF k \in DOMAIN obj THEN obj[k] ELSE Undefined

\* a || b on strings and undefined
Truthy(s) == s # Undefined /\ s # <<>>
Or(a, b) == IF Truthy(a) THEN a ELSE b

(***************************************************************************)
(* groupByLanguage                                                         *)
(***************************************************************************)
F_lang == Chars("lang")
F_lang_abv == Chars("lang_abv")
F_simplifiedName == Chars("simplifiedName")
F_commonName == Chars("commonName")
F_avgColorRGBCode == Chars("avgColorRGBCode")

\* A grouping key that forgets the fall-back to the full language name.
groupKeyNoFallback(color) == Field(color, F_lang_abv)

\* const lang = color.lang_abv || color.lang
groupKey(color) == Or(Field(color, F_lang_abv), Field(color, F_lang))

\* The Map is a sequence of entries [key, colors] in insertion order.
RECURSIVE GroupFrom(_, _, _)
GroupFrom(cs, i, grouped) ==
    IF i > Len(cs) THEN grouped
    ELSE LET color == cs[i]
             lang == groupKey(color)
             withKey ==
                 IF \E k \in 1..Len(grouped) : grouped[k].key = lang
                 THEN grouped
                 ELSE Append(grouped, [key |-> lang, colors |-> <<>>])
             at == CHOOSE k \in 1..Len(withKey) : withKey[k].key = lang
         IN  GroupFrom(cs, i + 1, [withKey EXCEPT ![at].colors = Append(@, color)])

groupByLanguage(cs) == GroupFrom(cs, 1, <<>>)

(***************************************************************************)
(* Emitters                                                                *)
(***************************************************************************)
Includes(s, c) == \E i \in 1..Len(s) : s[i] = c

\* String.prototype.replace(/pat/g, rep) for a literal pattern and a
\* replacement without '$': leftmost matches, not overlapping.
ReplaceAll(text, pat, rep) ==
    LET m == Len(pat)
        P == {i \in 1..(Len(text) - m + 1) :
                  text[i] = pat[1] /\ SubSeq(text, i, i + m - 1) = pat}
        RECURSIVE Build(_)
        Build(from) ==
            LET next == {i \in P : i >= from} IN
            IF next = {} THEN SubSeq(text, from, Len(text))
            ELSE LET i == CHOOSE x \in next : \A y \in next : x <= y IN
                 SubSeq(text, from, i - 1) \o rep \o Build(i + m)
    IN  Build(1)

\* The CSV name with the two name fields taken in the wrong order.
csvNameSimplifiedFirst(color) ==
    Or(Field(color, F_simplifiedName), Field(color, F_commonName))

\* const name = color.commonName || color.simplifiedName, in generateCSV
csvName(color) == Or(Field(color, F_commonName), Field(color, F_simplifiedName))

csvLine(color) ==
    LET name == csvName(color)
        hex == rgbToHex(Field(color, F_avgColorRGBCode))
        escapedName ==
            IF Includes(name, ",") \/ Includes(name, "\"")
            THEN <<"\"">> \o ReplaceAll(name, <<"\"">>, <<"\"", "\"">>) \o <<"\"">>
            ELSE name
    IN  escapedName \o <<",">> \o hex

\* Whether the loop of generateCSV throws: rgbToHex does, or name.includes of
\* an undefined name.
csvThrows(cs) ==
    \E i \in 1..Len(cs) :
        \/ rgbToHex(Field(cs[i], F_avgColorRGBCode)) = TypeError
        \/ csvName(cs[i]) = Undefined

generateCSV(cs) ==
    IF csvThrows(cs) THEN TypeError
    ELSE Join(<<Chars("name,hex")>> \o Map(csvLine, cs), <<"\n">>)

\* The JSON name when the simplified name is never consulted.
jsonNameCommonOnly(color) == Or(Field(color, F_commonName), <<>>)

\* name: color.commonName || color.simplifiedName, in generateJSON
jsonName(color) == Or(Field(color, F_commonName), Field(color, F_simplifiedName))

colorEntry(color) ==
    [name |-> jsonName(color), hex |-> rgbToHex(Field(color, F_avgColorRGBCode))]

\* JSON.stringify of a string
jsonEscape(c) ==
    IF c = "\"" THEN <<"\\", "\"">>
    ELSE IF c = "\\" THEN <<"\\", "\\">>
    ELSE IF c = "\n" THEN <<"\\", "n">>
    ELSE IF c = "\r" THEN <<"\\", "r">>
    ELSE IF c = "\t" THEN <<"\\", "t">>
    ELSE <<c>>

jsonString(s) == <<"\"">> \o Join(Map(jsonEscape, s), <<>>) \o <<"\"">>

\* One object of JSON.stringify(colorArray, null, 2); a property whose value is
\* undefined is left out.
jsonObject(e) ==
    Chars("  {\n")
        \o (IF e.name = Undefined THEN <<>>
            ELSE Chars("    \"name\": ") \o jsonString(e.name) \o Chars(",\n"))
        \o Chars("    \"hex\": ") \o jsonString(e.hex) \o Chars("\n  }")

jsonStringify(entries) ==
    IF entries = <<>> THEN Chars("[]")
    ELSE Chars("[\n") \o Join(Map(jsonObject, entries), Chars(",\n")) \o Chars("\n]")

generateJSON(cs) ==
    IF \E i \in 1..Len(cs) : colorEntry(cs[i]).hex = TypeError
    THEN TypeError
    ELSE jsonStringify(Map(colorEntry, cs))

RTL_LANGUAGES == {Chars("fa"), Chars("ar"), Chars("he"), Chars("ur")}

SVG_TEMPLATE ==
    Chars("<svg xmlns=\"http://www.w3.org/2000/svg\" viewBox=\"0 0 600 {height}\">\n")
    \o Chars("  <defs>\n")
    \o Chars("    <style type=\"text/css\">\n")
    \o Chars("      @import url('https://rsms.me/inter/inter.css');\n")
    \o Chars("      text {\n")
    \o Chars("        font-family: Inter, -apple-system, BlinkMacSystemFont, \"Segoe UI\", Roboto, Helvetica, Arial, sans-serif, \"Apple Color Emoji\", \"Segoe UI Emoji\", \"Segoe UI Symbol\";\n")
    \o Chars("        font-size: 40px;\n")
    \o Chars("        font-weight: 900;\n")
    \o Chars("      }\n")
    \o Chars("    </style>\n")
    \o Chars("  </defs>\n")
    \o Chars("  <rect fill=\"#202124\" x=\"0\" y=\"0\" width=\"600\" height=\"{height}\"/>\n")
    \o Chars("  {items}\n")
    \o Chars("</svg>")

\* const name = (color.commonName || color.simplifiedName).replace(...), in generateSVG
svgName(color) ==
    LET name == Or(Field(color, F_commonName), Field(color, F_simplifiedName)) IN
    IF name = Undefined THEN Undefined
    ELSE ReplaceAll(ReplaceAll(ReplaceAll(name, <<"&">>, Chars("&amp;")),
                               <<"<">>, Chars("&lt;")),
                    <<">">>, Chars("&gt;"))

\* i counts from 1 here, from 0 in the source: y = 20 + (i0 + 1) * 70.
svgItem(color, i, isRTL) ==
    LET hex == rgbToHex(Field(color, F_avgColorRGBCode))
        y == FormatInt(20 + i * 70)
    IN  IF isRTL
        THEN Chars("<text x=\"560\" y=\"") \o y \o Chars("\" fill=\"") \o hex
                 \o Chars("\" text-anchor=\"end\" xml:lang=\"fa\" unicode-bidi=\"embed\">")
                 \o svgName(color) \o Chars("</text>")
        ELSE Chars("<text x=\"40\" y=\"") \o y \o Chars("\" fill=\"") \o hex
                 \o Chars("\">") \o svgName(color) \o Chars("</text>")

\* 1, 2, ..., Len(seq)
RECURSIVE IndicesOf(_)
IndicesOf(seq) ==
    IF seq = <<>> THEN <<>>
    ELSE Append(IndicesOf(SubSeq(seq, 1, Len(seq) - 1)), Len(seq))

generateSVG(cs, langAbv) ==
    IF \E i \in 1..Len(cs) :
           \/ rgbToHex(Field(cs[i], F_avgColorRGBCode)) = TypeError
           \/ svgName(cs[i]) = Undefined
    THEN TypeError
    ELSE LET isRTL == langAbv \in RTL_LANGUAGES
             items == Join(Map(LAMBDA i : svgItem(cs[i], i, isRTL), IndicesOf(cs)),
                           Chars("\n  "))
             height == Len(cs) * 70 + 80
         IN  ReplaceAll(ReplaceAll(SVG_TEMPLATE, Chars("{height}"), FormatInt(height)),
                        Chars("{items}"), items)

(***************************************************************************)
(* getLanguageBasename                                                     *)
(***************************************************************************)
UpperCase == Chars("ABCDEFGHIJKLMNOPQRSTUVWXYZ")
LowerCase == Chars("abcdefghijklmnopqrstuvwxyz")

toLowerChar(c) ==
    IF \E k \in 1..26 : UpperCase[k] = c
    THEN LowerCase[CHOOSE k \in 1..26 : UpperCase[k] = c]
    ELSE c

toLowerCase(s) == Map(toLowerChar, s)

\* String.prototype.replace(/\s+/g, '-')
RECURSIVE HyphenateFrom(_, _)
HyphenateFrom(s, i) ==
    IF i > Len(s) THEN <<>>
    ELSE IF IsSpace(s[i]) THEN <<"-">> \o HyphenateFrom(s, SkipSpace(s, i))
    ELSE <<s[i]>> \o HyphenateFrom(s, i + 1)

\* `${x}` of a string or of undefined
Interpolate(x) == IF x = Undefined THEN Chars("undefined") ELSE x

\* A basename that keeps the case of the language name.
getLanguageBasenameKeepCase(langAbv, cs) ==
    Interpolate(langAbv) \o <<"-">>
        \o HyphenateFrom(trim(split(Or(Field(cs[1], F_lang), langAbv), "(")[1]), 1)

getLanguageBasename(langAbv, cs) ==
    LET fullLang == Or(IF cs = <<>> THEN Undefined ELSE Field(cs[1], F_lang), langAbv) IN
    IF fullLang = Undefined THEN TypeError
    ELSE LET englishName ==
                 HyphenateFrom(toLowerCase(trim(split(fullLang, "(")[1])), 1)
         IN  Interpolate(langAbv) \o <<"-">> \o englishName

(***************************************************************************)
(* Values of the variables a specification does not use.                   *)
(***************************************************************************)
IdleRun ==
    /\ csvData = <<>> /\ response = "pending" /\ existing = {}
    /\ colors = <<>> /\ byLanguage = <<>>
    /\ gi = 0 /\ step = "none" /\ created = <<>> /\ written = <<>>
    /\ files = <<>> /\ reported = 0 /\ exitCode = -1

runVars == <<csvData, response, existing, colors, byLanguage, gi, step, created,
             written, files, reported, exitCode>>

(***************************************************************************)
(* The converter on its own: Init draws the colour string, Convert applies *)
(* rgbToHex to it.                                                         *)
(***************************************************************************)
\* Style 0 is the upstream form "rgb(r, g, b)"; style k > 0 puts k - 1 blanks
\* wherever the pattern allows white space.
RgbText(r, g, b, style) ==
    IF style = 0
    THEN Chars("rgb(") \o FormatInt(r) \o Chars(", ") \o FormatInt(g)
             \o Chars(", ") \o FormatInt(b) \o Chars(")")
    ELSE LET P == Repeat(<<" ">>, style - 1) IN
         Chars("rgb") \o P \o <<"(">> \o P \o FormatInt(r) \o P \o <<",">> \o P
             \o FormatInt(g) \o P \o <<",">> \o P \o FormatInt(b) \o P \o <<")">>

AllChannels == -3..258
EdgeChannels == {-10, 128, 300}

ChannelTriples ==
    {<<r, 128, 128>> : r \in AllChannels}
        \cup {<<128, g, 128>> : g \in AllChannels}
        \cup {<<128, 128, b>> : b \in AllChannels}
        \cup (EdgeChannels \X EdgeChannels \X EdgeChannels)
        \cup {<<0, 0, 0>>, <<255, 255, 255>>, <<91, 155, 213>>, <<1000, -1000, 7>>}

JunkAlphabet == {"r", "g", "b", "(", ")", ",", "1", "-", " "}

RECURSIVE Strings(_, _)
Strings(alphabet, n) ==
    IF n = 0 THEN {<<>>}
    ELSE LET shorter == Strings(alphabet, n - 1) IN
         shorter \cup {Append(s, c) : s \in shorter, c \in alphabet}

NearMisses ==
    { Chars("not-a-color"), Chars("rgb(1,2)"), Chars("rgb(1.5, 2, 3)"),
      Chars("rgba(1, 2, 3, 4)"), Chars("RGB(1, 2, 3)"), Chars("rgb(1, 2, 3"),
      Chars("rgb(+1, 2, 3)"), Chars("rgb(1, - 2, 3)"), Chars("#5b9bd5"),
      Chars("rgb (1,2,3) "), Chars("xrgb(1,2,3)y"), Chars("rgb(rgb(1,22,255)"),
      Chars("rgb(007, 08, 0300)") }

InitConvert ==
    /\ pc = "convert"
    /\ \/ \E t \in ChannelTriples, style \in 0..(MaxPad + 1) :
              /\ arg = RgbText(t[1], t[2], t[3], style)
              /\ given = t
       \/ /\ arg \in Strings(JunkAlphabet, MaxJunk) \cup NearMisses
          /\ given = <<>>
    /\ ret = <<>>
    /\ warnings = 0
    /\ IdleRun

Convert ==
    /\ pc = "convert"
    /\ ret' = rgbToHex(arg)
    /\ warnings' = warnings + (IF rgbWarns(arg) THEN 1 ELSE 0)
    /\ pc' = "converted"
    /\ UNCHANGED <<arg, given>>
    /\ UNCHANGED runVars

NextConvert == Convert

SpecConvert == InitConvert /\ [][NextConvert]_vars

\* What the contract asks of one channel, computed without the converter.
ClampedChannel(n) == IF n < 0 THEN 0 ELSE IF n > 255 THEN 255 ELSE n
TwoHex(n) == <<HexDigits[(n \div 16) + 1], HexDigits[(n % 16) + 1]>>
HexVal(c) == (CHOOSE k \in 1..16 : HexDigits[k] = c) - 1
DecodeHex(h) ==
    << 16 * HexVal(h[2]) + HexVal(h[3]),
       16 * HexVal(h[4]) + HexVal(h[5]),
       16 * HexVal(h[6]) + HexVal(h[7]) >>

\* C1: for an input rgb(r, g, b), whatever the integers, the converter returns
\* '#' and the two-digit lowercase hex of each channel clamped to [0, 255];
\* channels already in [0, 255] are read back exactly from the hex, and
\* rgb(-10, 300, 128) gives #00ff80.
C1_ClampedHex ==
    (pc = "converted" /\ given # <<>>) =>
        /\ ret = <<"#">> \o TwoHex(ClampedChannel(given[1]))
                         \o TwoHex(ClampedChannel(given[2]))
                         \o TwoHex(ClampedChannel(given[3]))
        /\ (\A k \in 1..3 : given[k] \in 0..255) => DecodeHex(ret) = given
        /\ given = <<-10, 300, 128>> => ret = Chars("#00ff80")
        /\ warnings = 0

C1_Witness ==
    /\ pc = "converted"
    /\ arg = Chars("rgb(-10, 300, 128)")
    /\ given = <<-10, 300, 128>>
    /\ ret = Chars("#00ff80")

IsHexColor(h) ==
    /\ Len(h) = 7
    /\ h[1] = "#"
    /\ \A i \in 2..7 : \E k \in 1..16 : HexDigits[k] = h[i]

\* C7: whatever the colour string holds (a match, channels out of range, no
\* match at all) the hex the converter returns is '#' followed by exactly six
\* characters of 0-9a-f.
C7_HexShape == pc = "converted" => IsHexColor(ret)

C7_Witness ==
    /\ pc = "converted"
    /\ arg = Chars("rgb(1, - 2, 3)")
    /\ ret = Chars("#000000")
    /\ warnings = 1

(***************************************************************************)
(* The parser on its own: Init draws one data line, ParseLine scans it and *)
(* parses it under a three-column header.                                  *)
(***************************************************************************)
LineAlphabet == {"a", ",", "\"", " "}

ExampleLine == Chars("Language X,\"rgb(1, 2, 3)\",0.5")

SampleLines ==
    { ExampleLine,
      Chars("Spanish,es,claro,light blue,\"rgb(91, 155, 213)\",0.02,70,1,-30"),
      Chars("\"a,b\",\"c"), Chars("x \"y, z\" w , \"\" ,"), Chars("a\"\"b,\"c\"\",\"d\"") }

SampleHeader == Chars("h1, h2 ,h3")

InitParse ==
    /\ pc = "parse"
    /\ arg \in Strings(LineAlphabet, MaxLine) \cup SampleLines
    /\ given = <<>>
    /\ ret = <<>>
    /\ warnings = 0
    /\ IdleRun

ParseLine ==
    /\ pc = "parse"
    /\ ret' = [ values  |-> lineValues(arg),
                records |-> parseCSV(SampleHeader \o <<"\n">> \o arg) ]
    /\ pc' = "parsed"
    /\ UNCHANGED <<arg, given, warnings>>
    /\ UNCHANGED runVars

NextParse == ParseLine

SpecParse == InitParse /\ [][NextParse]_vars

\* Where the fields of a line lie, counted from the quote characters alone: a
\* position is inside quotes when an odd number of quotes precede it.
QuotesBefore(line, i) == Cardinality({j \in 1..(i - 1) : line[j] = "\""})
UnquotedCommas(line) ==
    {i \in 1..Len(line) : line[i] = "," /\ QuotesBefore(line, i) % 2 = 0}
QuotedCommas(line) ==
    {i \in 1..Len(line) : line[i] = "," /\ QuotesBefore(line, i) % 2 = 1}
CommasIn(s) == Cardinality({i \in 1..Len(s) : s[i] = ","})

RECURSIVE SumLens(_, _)
SumLens(f(_), seq) == IF seq = <<>> THEN 0 ELSE f(Head(seq)) + SumLens(f, Tail(seq))

\* The k-th field: the text between the (k-1)-th and the k-th comma outside
\* quotes, without its quote characters, trimmed.
FieldStart(line, k) ==
    IF k = 1 THEN 1
    ELSE 1 + CHOOSE i \in UnquotedCommas(line) :
                 Cardinality({j \in UnquotedCommas(line) : j < i}) = k - 2
FieldEnd(line, k) ==
    IF k = Cardinality(UnquotedCommas(line)) + 1 THEN Len(line)
    ELSE (CHOOSE i \in UnquotedCommas(line) :
              Cardinality({j \in UnquotedCommas(line) : j < i}) = k - 1) - 1
NotQuote(c) == c # "\""
ExpectedField(line, k) ==
    trim(SelectSeq(SubSeq(line, FieldStart(line, k), FieldEnd(line, k)), NotQuote))

\* C6: a data line is split only at the commas outside double quotes: it has one
\* field more than it has such commas, every comma inside quotes stays in the
\* value of its field, and the line Language X,"rgb(1, 2, 3)",0.5 gives exactly
\* the three fields Language X / rgb(1, 2, 3) / 0.5.
C6_SplitOutsideQuotes ==
    pc = "parsed" =>
        /\ Len(ret.values) = 1 + Cardinality(UnquotedCommas(arg))
        /\ SumLens(CommasIn, ret.values) = Cardinality(QuotedCommas(arg))
        /\ \A k \in 1..Len(ret.values) : ret.values[k] = ExpectedField(arg, k)
        /\ arg = ExampleLine =>
              /\ ret.values = <<Chars("Language X"), Chars("rgb(1, 2, 3)"), Chars("0.5")>>
              /\ Len(ret.records) = 1
              /\ ret.records[1][Chars("h2")] = Chars("rgb(1, 2, 3)")

C6_Witness ==
    /\ pc = "parsed"
    /\ arg = ExampleLine
    /\ Len(ret.values) = 3
    /\ ret.values[2] = Chars("rgb(1, 2, 3)")

(***************************************************************************)
(* The grouper on its own: Init draws a sequence of records, Group applies *)
(* groupByLanguage to it.                                                  *)
(***************************************************************************)
GroupRecord(abv, lang, name) ==
    (F_lang_abv :> abv) @@ (F_lang :> lang) @@ (F_simplifiedName :> name)

RecordPool ==
    { GroupRecord(abv, lang, Chars("a")) :
          abv \in {<<>>, Chars("en"), Chars("fr")},
          lang \in {<<>>, Chars("fr"), Chars("English")} }
    \cup { GroupRecord(Chars("en"), Chars("English"), Chars("b")),
           GroupRecord(<<>>, Chars("fr"), Chars("b")),
           GroupRecord(Chars("fr"), Chars("French"), Chars("b")),
           (F_lang :> Chars("fr")) @@ (F_simplifiedName :> Chars("c")) }

RECURSIVE SeqsUpTo(_, _)
SeqsUpTo(S, n) ==
    IF n = 0 THEN {<<>>}
    ELSE LET shorter == SeqsUpTo(S, n - 1) IN
         shorter \cup {Append(q, x) : q \in shorter, x \in S}

InitGroup ==
    /\ pc = "group"
    /\ arg \in SeqsUpTo(RecordPool, MaxRecords)
    /\ given = <<>>
    /\ ret = <<>>
    /\ warnings = 0
    /\ IdleRun

Group ==
    /\ pc = "group"
    /\ ret' = groupByLanguage(arg)
    /\ pc' = "grouped"
    /\ UNCHANGED <<arg, given, warnings>>
    /\ UNCHANGED runVars

NextGroup == Group

SpecGroup == InitGroup /\ [][NextGroup]_vars

\* The language a record belongs to, read off the record.
LanguageOf(c) ==
    IF F_lang_abv \in DOMAIN c /\ c[F_lang_abv] # <<>> THEN c[F_lang_abv]
    ELSE c[F_lang]

FirstIndexOf(cs, key) ==
    CHOOSE i \in 1..Len(cs) :
        /\ LanguageOf(cs[i]) = key
        /\ \A j \in 1..(i - 1) : LanguageOf(cs[j]) # key

\* C4: grouping is an order-preserving partition.  Each group holds exactly the
\* records of its language (short code, or full name when the code is empty),
\* in input order; no record is lost or repeated; groups come in first-seen
\* order; for languages en, fr, en the en group is the 1st and 3rd record.
C4_OrderPreservingPartition ==
    pc = "grouped" =>
        /\ \A k \in 1..Len(ret) :
              /\ ret[k].colors = SelectSeq(arg, LAMBDA c : LanguageOf(c) = ret[k].key)
              /\ ret[k].colors # <<>>
        /\ \A k, m \in 1..Len(ret) : k # m => ret[k].key # ret[m].key
        /\ {ret[k].key : k \in 1..Len(ret)} = {LanguageOf(arg[i]) : i \in 1..Len(arg)}
        /\ \A k, m \in 1..Len(ret) :
              k < m => FirstIndexOf(arg, ret[k].key) < FirstIndexOf(arg, ret[m].key)
        /\ SumLens(LAMBDA e : Len(e.colors), ret) = Len(arg)
        /\ ( /\ Len(arg) = 3
             /\ LanguageOf(arg[1]) = Chars("en")
             /\ LanguageOf(arg[2]) = Chars("fr")
             /\ LanguageOf(arg[3]) = Chars("en") )
           => /\ ret[1].key = Chars("en")
              /\ ret[1].colors = <<arg[1], arg[3]>>

C4_Witness ==
    /\ pc = "grouped"
    /\ Len(arg) = 3
    /\ arg[1] = GroupRecord(Chars("en"), Chars("English"), Chars("a"))
    /\ arg[2] = GroupRecord(<<>>, Chars("fr"), Chars("a"))
    /\ arg[3] = GroupRecord(Chars("en"), Chars("English"), Chars("b"))
    /\ Len(ret) = 2
    /\ ret[1].colors = <<arg[1], arg[3]>>
    /\ ret[2].colors = <<arg[2]>>

(***************************************************************************)
(* main: the run itself.  The remote resource is drawn by Init; the await  *)
(* points and the file-system calls are the steps.                         *)
(***************************************************************************)
DATA_DIR == Chars("data")
JSON_DIR == Chars("json")
SVG_DIR == Chars("svg")
OutputDirs == <<DATA_DIR, JSON_DIR, SVG_DIR>>

\* path.join(dir, `${basename}${ext}`) for a basename without path separators
pathJoin(dir, basename, ext) == dir \o <<"/">> \o basename \o ext

FullHeader ==
    Chars("lang,lang_abv,simplifiedName,commonName,avgColorRGBCode,totalColorFraction,avgL,avgA,avgB")
HeaderWithoutColor == Chars("lang,lang_abv,simplifiedName,commonName")

RowSpanish == Chars("Spanish,es,claro,light blue,\"rgb(91, 155, 213)\",0.02,70,1,-30")
RowPersian == Chars("Persian (Farsi),fa,sabz,,\"rgb(-10, 300, 128)\",0.1,50,2,3")
RowBadColor == Chars("Spanish,es,rojo,\"red, deep\",not-a-color,0.3,1,2,3")
RowNoCode == Chars("New  French,,bleu,a<b&c,\"rgb(0,0,255)\",0.5,1,2,3")
RowHyphenLang == Chars("b-c,a,x,y,\"rgb(1, 2, 3)\",0.1,1,2,3")
RowHyphenCode == Chars("c,a-b,u,v,\"rgb(4, 5, 6)\",0.1,1,2,3")
RowNoNames == Chars("Spanish,es,,,\"rgb(7, 8, 9)\",0.1,1,2,3")
RowShort == Chars("Persian (Farsi),fa,zard")

RowPool ==
    { RowSpanish, RowPersian, RowBadColor, RowNoCode, RowHyphenLang,
      RowHyphenCode, RowNoNames, RowShort }

CsvText(in) == Join(<<in.header>> \o in.rows, <<"\n">>) \o <<"\n">>

Inputs ==
    { [header |-> FullHeader, rows |-> rs] : rs \in SeqsUpTo(RowPool, MaxRows) }
    \cup { [header |-> HeaderWithoutColor, rows |-> <<RowSpanish>>],
           [header |-> <<>>, rows |-> <<>>] }

Init ==
    /\ pc = "start"
    /\ given \in Inputs
    /\ csvData = CsvText(given)
    /\ existing \in {{}, {DATA_DIR, JSON_DIR, SVG_DIR}}
    /\ response = "pending"
    /\ colors = <<>>
    /\ byLanguage = <<>>
    /\ gi = 0
    /\ step = "none"
    /\ created = <<>>
    /\ written = <<>>
    /\ files = <<>>
    /\ reported = 0
    /\ exitCode = -1
    /\ warnings = 0
    /\ arg = <<>>
    /\ ret = <<>>

harnessVars == <<arg, given, ret>>

\* await fetch(URL) rejects: main rejects, the catch handler is next.
FetchRejects ==
    /\ pc = "start"
    /\ response' = "rejected"
    /\ pc' = "caught"
    /\ UNCHANGED <<csvData, existing, colors, byLanguage, gi, step, created,
                   written, files, reported, exitCode, warnings>>
    /\ UNCHANGED harnessVars

\* A response that is not ok passes for a good one.
FetchNotOkUnchecked ==
    /\ pc = "start"
    /\ response' = "notok"
    /\ pc' = "text"
    /\ UNCHANGED <<csvData, existing, colors, byLanguage, gi, step, created,
                   written, files, reported, exitCode, warnings>>
    /\ UNCHANGED harnessVars

\* if (!response.ok) throw new Error(...)
FetchNotOk ==
    /\ pc = "start"
    /\ response' = "notok"
    /\ pc' = "caught"
    /\ UNCHANGED <<csvData, existing, colors, byLanguage, gi, step, created,
                   written, files, reported, exitCode, warnings>>
    /\ UNCHANGED harnessVars

FetchOk ==
    /\ pc = "start"
    /\ response' = "ok"
    /\ pc' = "text"
    /\ UNCHANGED <<csvData, existing, colors, byLanguage, gi, step, created,
                   written, files, reported, exitCode, warnings>>
    /\ UNCHANGED harnessVars

\* await response.text() rejects
BodyRejects ==
    /\ pc = "text"
    /\ response' = "truncated"
    /\ pc' = "caught"
    /\ UNCHANGED <<csvData, existing, colors, byLanguage, gi, step, created,
                   written, files, reported, exitCode, warnings>>
    /\ UNCHANGED harnessVars

\* The body arrives: parseCSV and groupByLanguage.
BodyRead ==
    /\ pc = "text"
    /\ response' = "read"
    /\ colors' = parseCSV(csvData)
    /\ byLanguage' = groupByLanguage(colors')
    /\ pc' = "mkdir"
    /\ UNCHANGED <<csvData, existing, gi, step, created, written, files,
                   reported, exitCode, warnings>>
    /\ UNCHANGED harnessVars

\* for (const dir of [DATA_DIR, JSON_DIR, SVG_DIR]) if (!existsSync(dir)) mkdirSync(dir)
MakeDirs ==
    /\ pc = "mkdir"
    /\ created' = SelectSeq(OutputDirs, LAMBDA d : d \notin existing)
    /\ gi' = 1
    /\ step' = "csv"
    /\ pc' = "loop"
    /\ UNCHANGED <<csvData, response, existing, colors, byLanguage, written,
                   files, reported, exitCode, warnings>>
    /\ UNCHANGED harnessVars

groupBasename(k) == getLanguageBasename(byLanguage[k].key, byLanguage[k].colors)

groupWarnings(k) ==
    Cardinality({i \in 1..Len(byLanguage[k].colors) :
                     rgbWarns(Field(byLanguage[k].colors[i], F_avgColorRGBCode))})

\* One writeFileSync of the loop, or the throw that ends the run.
WriteStep(dir, ext, content, next, nextGroup) ==
    LET basename == groupBasename(gi) IN
    IF basename = TypeError \/ content = TypeError
    THEN /\ pc' = "caught"
         /\ UNCHANGED <<gi, step, written, files, warnings>>
    ELSE LET path == pathJoin(dir, basename, ext) IN
         /\ written' = Append(written, [path |-> path, content |-> content])
         /\ files' = (path :> content) @@ files
         /\ warnings' = warnings + groupWarnings(gi)
         /\ step' = next
         /\ gi' = nextGroup
         /\ pc' = "loop"

WriteCSV ==
    /\ pc = "loop" /\ gi <= Len(byLanguage) /\ step = "csv"
    /\ WriteStep(DATA_DIR, Chars(".csv"), generateCSV(byLanguage[gi].colors), "json", gi)
    /\ UNCHANGED <<csvData, response, existing, colors, byLanguage, created,
                   reported, exitCode>>
    /\ UNCHANGED harnessVars

WriteJSON ==
    /\ pc = "loop" /\ gi <= Len(byLanguage) /\ step = "json"
    /\ WriteStep(JSON_DIR, Chars(".json"), generateJSON(byLanguage[gi].colors), "svg", gi)
    /\ UNCHANGED <<csvData, response, existing, colors, byLanguage, created,
                   reported, exitCode>>
    /\ UNCHANGED harnessVars

WriteSVG ==
    /\ pc = "loop" /\ gi <= Len(byLanguage) /\ step = "svg"
    /\ WriteStep(SVG_DIR, Chars(".svg"),
                 generateSVG(byLanguage[gi].colors, byLanguage[gi].key), "csv", gi + 1)
    /\ UNCHANGED <<csvData, response, existing, colors, byLanguage, created,
                   reported, exitCode>>
    /\ UNCHANGED harnessVars

\* The loop is over: main resolves and the process ends with status 0.
Finish ==
    /\ pc = "loop" /\ gi > Len(byLanguage)
    /\ pc' = "done"
    /\ exitCode' = 0
    /\ UNCHANGED <<csvData, response, existing, colors, byLanguage, gi, step,
                   created, written, files, reported, warnings>>
    /\ UNCHANGED harnessVars

\* main().catch(err => { console.error(...); process.exit(1) })
Catch ==
    /\ pc = "caught"
    /\ reported' = reported + 1
    /\ exitCode' = 1
    /\ pc' = "exited"
    /\ UNCHANGED <<csvData, response, existing, colors, byLanguage, gi, step,
                   created, written, files, warnings>>
    /\ UNCHANGED harnessVars

Next ==
    \/ FetchRejects
    \/ FetchNotOk
    \/ FetchOk
    \/ BodyRejects
    \/ BodyRead
    \/ MakeDirs
    \/ WriteCSV
    \/ WriteJSON
    \/ WriteSVG
    \/ Finish
    \/ Catch

Spec == Init /\ [][Next]_vars

(***************************************************************************)
(* Readers of the three output formats, used to state what the files hold. *)
(***************************************************************************)
IndexOf(s, pat) ==
    LET m == Len(pat)
        P == {i \in 1..(Len(s) - m + 1) :
                  s[i] = pat[1] /\ SubSeq(s, i, i + m - 1) = pat}
    IN  IF P = {} THEN 0 ELSE CHOOSE i \in P : \A j \in P : i <= j

StartsWith(s, pat) == Len(s) >= Len(pat) /\ SubSeq(s, 1, Len(pat)) = pat

\* The closing quote of a quoted CSV field opened before position i.
RECURSIVE CsvQuoteEnd(_, _)
CsvQuoteEnd(line, i) ==
    IF i > Len(line) THEN i
    ELSE IF line[i] = "\"" /\ LitAt(line, i + 1, "\"") THEN CsvQuoteEnd(line, i + 2)
    ELSE IF line[i] = "\"" THEN i
    ELSE CsvQuoteEnd(line, i + 1)

\* One data line of a two-column CSV file, read as RFC 4180 has it.
ReadCsvLine(line) ==
    IF LitAt(line, 1, "\"")
    THEN LET e == CsvQuoteEnd(line, 2) IN
         [ name |-> ReplaceAll(SubSeq(line, 2, e - 1), <<"\"", "\"">>, <<"\"">>),
           hex  |-> SubSeq(line, e + 2, Len(line)) ]
    ELSE LET c == IndexOf(line, <<",">>) IN
         [ name |-> SubSeq(line, 1, c - 1), hex |-> SubSeq(line, c + 1, Len(line)) ]

ReadCsv(content) ==
    Map(ReadCsvLine, Tail(split(content, "\n")))

\* The closing quote of a JSON string opened before position i.
RECURSIVE JsonQuoteEnd(_, _)
JsonQuoteEnd(t, i) ==
    IF i > Len(t) THEN i
    ELSE IF t[i] = "\\" THEN JsonQuoteEnd(t, i + 2)
    ELSE IF t[i] = "\"" THEN i
    ELSE JsonQuoteEnd(t, i + 1)

RECURSIVE JsonUnescape(_, _)
JsonUnescape(t, i) ==
    IF i > Len(t) THEN <<>>
    ELSE IF t[i] = "\\"
         THEN LET c == t[i + 1] IN
              <<IF c = "n" THEN "\n" ELSE IF c = "r" THEN "\r"
                ELSE IF c = "t" THEN "\t" ELSE c>> \o JsonUnescape(t, i + 2)
    ELSE <<t[i]>> \o JsonUnescape(t, i + 1)

\* The members "key": "value" of an object, from position i up to its '}'.
RECURSIVE ReadJsonMembers(_, _, _)
ReadJsonMembers(t, i, obj) ==
    LET k == SkipSpace(t, i) IN
    IF LitAt(t, k, "}") THEN [value |-> obj, next |-> k + 1]
    ELSE LET kEnd == JsonQuoteEnd(t, k + 1)
             key == JsonUnescape(SubSeq(t, k + 1, kEnd - 1), 1)
             colon == SkipSpace(t, kEnd + 1)
             v == SkipSpace(t, colon + 1)
             vEnd == JsonQuoteEnd(t, v + 1)
             val == JsonUnescape(SubSeq(t, v + 1, vEnd - 1), 1)
             n == SkipSpace(t, vEnd + 1)
             more == (key :> val) @@ obj
         IN  IF LitAt(t, n, ",") THEN ReadJsonMembers(t, n + 1, more)
             ELSE [value |-> more, next |-> n + 1]

\* The objects of an array, from position i (after '[' or ',') up to its ']'.
RECURSIVE ReadJsonObjects(_, _, _)
ReadJsonObjects(t, i, acc) ==
    LET o == SkipSpace(t, i) IN
    IF ~LitAt(t, o, "{") THEN acc
    ELSE LET m == ReadJsonMembers(t, o + 1, <<>>)
             n == SkipSpace(t, m.next)
             e == [name |-> Field(m.value, Chars("name")), hex |-> Field(m.value, Chars("hex"))]
         IN  IF LitAt(t, n, ",") THEN ReadJsonObjects(t, n + 1, Append(acc, e))
             ELSE Append(acc, e)

ReadJson(content) == ReadJsonObjects(content, IndexOf(content, <<"[">>) + 1, <<>>)

XmlUnescape(s) ==
    ReplaceAll(ReplaceAll(ReplaceAll(s, Chars("&lt;"), <<"<">>), Chars("&gt;"), <<">">>),
               Chars("&amp;"), <<"&">>)

\* One <text> element: its fill colour and its text content.
ReadSvgText(line) ==
    LET f == IndexOf(line, Chars("fill=\""))
        open == IndexOf(line, <<">">>)
    IN  [ name |-> XmlUnescape(SubSeq(line, open + 1, Len(line) - Len("</text>"))),
          hex  |-> SubSeq(line, f + 6, f + 12) ]

ReadSvg(content) ==
    Map(ReadSvgText,
        SelectSeq(Map(trim, split(content, "\n")), LAMBDA l : StartsWith(l, Chars("<text "))))

\* The entries of the n-th file the loop writes: CSV, JSON, SVG in turn.
ReadEntries(n, content) ==
    IF n % 3 = 1 THEN ReadCsv(content)
    ELSE IF n % 3 = 2 THEN ReadJson(content)
    ELSE ReadSvg(content)

GroupOfWrite(n) == ((n - 1) \div 3) + 1

\* The name and the colour a record stands for, read off the record.
FirstNonEmpty(a, b) == IF a # <<>> THEN a ELSE b
ExpectedName(c) == FirstNonEmpty(c[F_commonName], c[F_simplifiedName])

ColorOf(c) == c[F_avgColorRGBCode]
BadColor(c) == rgbMatch(ColorOf(c)) = NoMatch

\* The input with every unparsable colour string replaced by a well-formed one.
RowGoodColor == Chars("Spanish,es,rojo,\"red, deep\",\"rgb(200, 10, 10)\",0.3,1,2,3")
RowShortGoodColor == Chars("Persian (Farsi),fa,zard,,\"rgb(9, 9, 9)\"")
RepairRow(row) ==
    IF row = RowBadColor THEN RowGoodColor
    ELSE IF row = RowShort THEN RowShortGoodColor
    ELSE row
Repaired(in) == [header |-> in.header, rows |-> Map(RepairRow, in.rows)]

\* The n-th write of a whole run whose body parses into these groups.
WriteOfRun(groups, n) ==
    LET g == groups[GroupOfWrite(n)]
        b == getLanguageBasename(g.key, g.colors)
    IN  IF n % 3 = 1
        THEN [path |-> pathJoin(DATA_DIR, b, Chars(".csv")), content |-> generateCSV(g.colors)]
        ELSE IF n % 3 = 2
        THEN [path |-> pathJoin(JSON_DIR, b, Chars(".json")), content |-> generateJSON(g.colors)]
        ELSE [path |-> pathJoin(SVG_DIR, b, Chars(".svg")),
              content |-> generateSVG(g.colors, g.key)]

GroupsOfRun(csv) == groupByLanguage(parseCSV(csv))

\* C2: a colour string that does not match the pattern costs its own record its
\* colour (#000000) and nothing else: the run is not aborted, and every file
\* written holds, for every other record, the name and the hex it holds when
\* the run is made on the same input with the bad colour strings well formed.
C2_BadColorIsLocal ==
    (response = "read" /\ given.header = FullHeader) =>
        /\ pc \notin {"caught", "exited"}
        /\ pc = "done" => Len(written) = 3 * Len(GroupsOfRun(CsvText(Repaired(given))))
        /\ LET groups == GroupsOfRun(CsvText(Repaired(given))) IN
           \A n \in 1..Len(written) :
              LET other == WriteOfRun(groups, n)
                  mine == ReadEntries(n, written[n].content)
                  theirs == ReadEntries(n, other.content)
                  cs == byLanguage[GroupOfWrite(n)].colors
              IN  /\ written[n].path = other.path
                  /\ Len(mine) = Len(cs)
                  /\ Len(theirs) = Len(cs)
                  /\ \A i \in 1..Len(cs) :
                        /\ mine[i].name = theirs[i].name
                        /\ IF BadColor(cs[i])
                           THEN mine[i].hex = Chars("#000000")
                           ELSE mine[i].hex = theirs[i].hex

C2_Witness ==
    /\ pc = "done"
    /\ given.rows = <<RowBadColor, RowSpanish>>
    /\ Len(written) = 3
    /\ ReadJson(written[2].content) =
           << [name |-> Chars("red, deep"), hex |-> Chars("#000000")],
              [name |-> Chars("light blue"), hex |-> Chars("#5b9bd5")] >>
    /\ warnings = 3

FetchFailed == response \in {"rejected", "notok", "truncated"}

\* C3: when the fetch fails or the response is not a success, the run goes to
\* the catch handler and ends with the error reported and exit status 1, and
\* it has created no directory and written no file; a directory is created or
\* a file written only after the body was fetched and parsed.
C3_FailedFetchWritesNothing ==
    /\ FetchFailed =>
          /\ created = <<>> /\ written = <<>> /\ DOMAIN files = {}
          /\ pc \in {"caught", "exited"}
          /\ pc = "caught" => ENABLED Catch
          /\ pc = "exited" => (exitCode = 1 /\ reported = 1)
    /\ (created # <<>> \/ written # <<>> \/ DOMAIN files # {}) =>
          /\ response = "read"
          /\ colors = parseCSV(csvData)

C3_Witness ==
    /\ response = "notok"
    /\ pc = "exited"
    /\ exitCode = 1
    /\ reported = 1
    /\ given.rows = <<RowSpanish>>
    /\ written = <<>>

\* C5: the CSV file and the JSON file of a group hold the same number of
\* entries, one per record of the group, and the i-th data line of the one and
\* the i-th object of the other hold the same name and hex, those of the i-th
\* record.
C5_CsvAndJsonAgree ==
    \A k \in 1..Len(byLanguage) :
        (given.header = FullHeader /\ Len(written) >= 3 * k - 1) =>
            LET csv == ReadCsv(written[3 * k - 2].content)
                json == ReadJson(written[3 * k - 1].content)
                cs == byLanguage[k].colors
            IN  /\ StartsWith(written[3 * k - 2].content, Chars("name,hex\n"))
                /\ Len(csv) = Len(cs)
                /\ Len(json) = Len(cs)
                /\ \A i \in 1..Len(cs) :
                      /\ csv[i] = json[i]
                      /\ json[i].name = ExpectedName(cs[i])

C5_Witness ==
    /\ given.rows = <<RowBadColor, RowShort>>
    /\ Len(written) = 5
    /\ ReadCsv(written[1].content) = ReadJson(written[2].content)
    /\ ReadCsv(written[1].content)[1].name = Chars("red, deep")
    /\ written[1].content = Chars("name,hex\n\"red, deep\",#000000")
    /\ ReadCsv(written[4].content) = ReadJson(written[5].content)

JsonWrites == {n \in 1..Len(written) : n % 3 = 2}

\* C8 as stated: every emitted entry has a name that is not empty.
C8_NameNeverEmpty ==
    \A n \in JsonWrites :
        \A i \in 1..Len(ReadJson(written[n].content)) :
            ReadJson(written[n].content)[i].name # <<>>

\* C8, amended: the name of an emitted entry is the common name of its record
\* if that is not empty, else the simplified name; it is not empty whenever at
\* least one of the two fields of the record is not empty.
C8_NameIsFirstNonEmpty ==
    \A n \in JsonWrites :
        LET es == ReadJson(written[n].content)
            cs == byLanguage[GroupOfWrite(n)].colors
        IN  /\ Len(es) = Len(cs)
            /\ \A i \in 1..Len(cs) :
                  /\ es[i].name = ExpectedName(cs[i])
                  /\ (cs[i][F_commonName] # <<>> \/ cs[i][F_simplifiedName] # <<>>)
                         => es[i].name # <<>>

C8_Witness ==
    /\ given.rows = <<RowShort>>
    /\ Len(written) >= 2
    /\ colors[1][F_commonName] = <<>>
    /\ ReadJson(written[2].content)[1].name = Chars("zard")

EndToEndInput == [header |-> FullHeader, rows |-> <<RowSpanish>>]

EndToEndJson ==
    Chars("[\n  {\n    \"name\": \"light blue\",\n    \"hex\": \"#5b9bd5\"\n  }\n]")

\* C9: the run on the header and the one row
\* Spanish,es,claro,light blue,"rgb(91, 155, 213)",0.02,70,1,-30 is not aborted
\* and ends with status 0 having written exactly es-spanish.csv,
\* es-spanish.json and es-spanish.svg; the JSON file holds the one-element
\* array [{"name":"light blue","hex":"#5b9bd5"}].
C9_EndToEnd ==
    (given = EndToEndInput /\ response = "read") =>
        /\ pc \notin {"caught", "exited"}
        /\ pc = "done" =>
              /\ exitCode = 0
              /\ DOMAIN files = { Chars("data/es-spanish.csv"),
                                  Chars("json/es-spanish.json"),
                                  Chars("svg/es-spanish.svg") }
              /\ Len(written) = 3
              /\ files[Chars("json/es-spanish.json")] = EndToEndJson
              /\ ReadJson(files[Chars("json/es-spanish.json")]) =
                     <<[name |-> Chars("light blue"), hex |-> Chars("#5b9bd5")]>>
              /\ files[Chars("data/es-spanish.csv")] = Chars("name,hex\nlight blue,#5b9bd5")
              /\ ReadSvg(files[Chars("svg/es-spanish.svg")]) =
                     <<[name |-> Chars("light blue"), hex |-> Chars("#5b9bd5")]>>

C9_Witness ==
    /\ given = EndToEndInput
    /\ pc = "done"
    /\ exitCode = 0
    /\ Chars("json/es-spanish.json") \in DOMAIN files

FilesIn(dir) == {p \in DOMAIN files : StartsWith(p, dir \o <<"/">>)}

\* C10 as stated: two different groups have two different basenames, no path
\* is written twice in a run, and at the end each output directory holds as
\* many files of the run as there are groups.
C10_DistinctBasenames ==
    given.header = FullHeader =>
        /\ \A k, m \in 1..Len(byLanguage) :
              k # m => groupBasename(k) # groupBasename(m)
        /\ \A i, j \in 1..Len(written) : i # j => written[i].path # written[j].path
        /\ pc = "done" =>
              \A d \in {DATA_DIR, JSON_DIR, SVG_DIR} :
                  Cardinality(FilesIn(d)) = Len(byLanguage)

====
